---------------------------- MODULE Spec2Model ----------------------------
(***************************************************************************)
(* A model of etl.py: the paginated listing of the JSON objects of a       *)
(* bucket (json_files), the catalog flow (process_song_data), the event    *)
(* flow (process_log_data) and their order (main).                         *)
(*                                                                         *)
(* Strings the code takes apart (object keys) are sequences of one-        *)
(* character strings.  A data frame is the sequence of its rows.  A table  *)
(* on disk is a function from partition values to the rows stored under    *)
(* that partition, plus the marker of a completed write.                   *)
(***************************************************************************)
EXTENDS Integers, Sequences, FiniteSets

VARIABLES
    store,      \* the objects of the bucket, in key order
    pageSize,   \* keys the store returns per list_objects_v2 response
    tz,         \* offset (seconds) of the session time zone from UTC
    pc,         \* the statement main / process_*_data is at
    step,       \* which call of main is next (1, 2) or 3 after both
    flow,       \* the process_*_data function running: "none", "song", "log"
    prefix,     \* json_files: its prefix argument
    kwargs,     \* json_files: kwargs['ContinuationToken'] (0: not set)
    response,   \* json_files: the last response of list_objects_v2
    lpc,        \* json_files: "idle", "request", "iterate", "check", "returned", "raised"
    yielded,    \* json_files: the locators yielded so far
    requests,   \* json_files: list_objects_v2 calls made by this listing
    song_data,  \* the temp table "song_data"
    log_data,   \* the temp table "log_data"
    songs,      \* the temp table "songs" (read back from the output tree)
    tables,     \* the output tree: table name -> [parts, success]
    error,      \* the exception that ended the run ("" while none)
    envFault    \* TRUE once a write was failed by the environment

vars == <<store, pageSize, tz, pc, step, flow, prefix, kwargs, response, lpc,
          yielded, requests, song_data, log_data, songs, tables, error, envFault>>

listerVars == <<prefix, kwargs, response, lpc, yielded, requests>>

-----------------------------------------------------------------------------
(* Bounds of the model *)

\* objects under one prefix
MaxObjects == 3

\* largest page size of the store
MaxPageSize == 2

\* rows drawn for the inputs of the SQL statements checked on their own
MaxRows == 3

-----------------------------------------------------------------------------
(* Sequences *)

RECURSIVE SetToSortedSeq(_)
SetToSortedSeq(S) ==
    IF S = {} THEN <<>>
    ELSE LET m == CHOOSE x \in S : \A y \in S : x <= y
         IN  <<m>> \o SetToSortedSeq(S \ {m})

\* the elements of seq at the positions in idx, in order
Pick(seq, idx) == LET ix == SetToSortedSeq(idx) IN [i \in 1..Len(ix) |-> seq[ix[i]]]

\* every subsequence of seq of at most n elements
SubSeqsUpTo(seq, n) ==
    { Pick(seq, idx) : idx \in { s \in SUBSET (1..Len(seq)) : Cardinality(s) <= n } }

Range(seq) == { seq[i] : i \in 1..Len(seq) }

RECURSIVE Flatten(_)
Flatten(seqs) == IF seqs = <<>> THEN <<>> ELSE Head(seqs) \o Flatten(Tail(seqs))

Count(seq, x) == Cardinality({ i \in 1..Len(seq) : seq[i] = x })

Min(a, b) == IF a <= b THEN a ELSE b

-----------------------------------------------------------------------------
(* pathlib.Path(key).suffix *)

Slash == "/"
Dot == "."
DotJson == <<".", "j", "s", "o", "n">>

\* positions of the character c in s
Positions(s, c) == { i \in 1..Len(s) : s[i] = c }

Last(S) == CHOOSE i \in S : \A j \in S : j <= i

\* s without its trailing slashes and trailing "/." components, as pathlib
\* drops them when it parses a path
RECURSIVE StripTrailing(_)
StripTrailing(s) ==
    IF s = <<>> THEN s
    ELSE IF s[Len(s)] = Slash THEN StripTrailing(SubSeq(s, 1, Len(s) - 1))
    ELSE IF Len(s) >= 2 /\ s[Len(s)] = Dot /\ s[Len(s) - 1] = Slash
         THEN StripTrailing(SubSeq(s, 1, Len(s) - 2))
    ELSE s

\* PurePath.name: the final component of the path
PathName(key) ==
    LET s == StripTrailing(key)
        sl == Positions(s, Slash)
    IN  IF sl = {} THEN s ELSE SubSeq(s, Last(sl) + 1, Len(s))

\* PurePath.suffix: i = name.rfind('.'); name[i:] if 0 < i < len(name) - 1
\* (0-based i), else ''
Suffix(key) ==
    LET name == PathName(key)
        dots == Positions(name, Dot)
    IN  IF dots = {} THEN <<>>
        ELSE LET i == Last(dots)
             IN  IF 1 < i /\ i < Len(name) THEN SubSeq(name, i, Len(name)) ELSE <<>>


-----------------------------------------------------------------------------
(* The bucket: its objects, and the input records they hold *)

\* a SQL NULL (a JSON null, or a field the line does not have)
Null == "<null>"

SongPrefix == <<"s", "o", "n", "g", "_", "d", "a", "t", "a">>
LogPrefix == <<"l", "o", "g", "_", "d", "a", "t", "a">>

\* one line of a song file
SongRec(id, title, artist, year) ==
    [song_id |-> id, title |-> title, artist_id |-> artist, year |-> year,
     duration |-> 200, artist_name |-> artist, artist_location |-> Null,
     artist_latitude |-> Null, artist_longitude |-> Null]

\* one line of a log file; ts is a 64-bit count of milliseconds since the
\* epoch, held as <<seconds, milliseconds>> (TLC's integers have 32 bits)
LogRec(page, ts, user, level, song) ==
    [page |-> page, ts |-> ts, userId |-> user, firstName |-> user,
     lastName |-> "Doe", gender |-> "F", level |-> level, sessionId |-> 7,
     location |-> "Here", userAgent |-> "Mozilla", song |-> song]

\* 2018-11-13 00:30:00 UTC and 2018-12-01 00:00:00 UTC
Ts1 == <<1542069000, 0>>
Ts2 == <<1543622400, 0>>

SongRecords ==
    << SongRec("S1", "Test Song", "A1", 2018),
       SongRec("S2", "Other Song", "A2", 2019),
       SongRec("S1", "Other Song", "A1", 2018),
       SongRec("S3", "Hidden Song", "A1", 2018) >>

LogRecords ==
    << LogRec("NextSong", Ts1, "u1", "free", "Test Song"),
       LogRec("NextSong", Ts1, "u2", "free", "No Match"),
       LogRec("Login", Ts2, "u3", "free", Null),
       LogRec("NextSong", Ts2, "u1", "paid", "Other Song"),
       LogRec("Home", Ts2, "u1", "paid", Null),
       LogRec("NextSong", Ts2, "u4", "free", "Test Song") >>

Object(key, body) == [key |-> key, body |-> body]

\* the objects a bucket may hold under song_data, in the store's key order
SongObjects ==
    << Object(SongPrefix \o <<"/">> \o DotJson, <<SongRecords[4]>>),
       Object(SongPrefix \o <<"/", "a">> \o DotJson, <<SongRecords[1]>>),
       Object(SongPrefix \o <<"/", "b">> \o DotJson, <<SongRecords[2]>>),
       Object(SongPrefix \o <<"/", "c">> \o DotJson, <<SongRecords[3]>>),
       Object(SongPrefix \o <<"/", "d">> \o DotJson \o <<"/">>, <<>>),
       Object(SongPrefix \o <<"/", "r", ".", "t", "x", "t">>, <<>>) >>

\* the objects a bucket may hold under log_data, in the store's key order
LogObjects ==
    << Object(LogPrefix \o <<"/", "1">> \o DotJson, <<LogRecords[1]>>),
       Object(LogPrefix \o <<"/", "2">> \o DotJson, <<LogRecords[2]>>),
       Object(LogPrefix \o <<"/", "3">> \o DotJson, <<LogRecords[3]>>),
       Object(LogPrefix \o <<"/", "4">> \o DotJson, <<LogRecords[4], LogRecords[5]>>),
       Object(LogPrefix \o <<"/", "5", ".", "t", "x", "t">>, <<LogRecords[6]>>) >>

TimeZones == {0, -28800}

-----------------------------------------------------------------------------
(* json_files *)

bucket_name == "udacity-dend"

IsPrefix(p, s) == Len(p) <= Len(s) /\ SubSeq(s, 1, Len(p)) = p

\* the objects whose key begins with the prefix
Under(objects, p) == SelectSeq(objects, LAMBDA o : IsPrefix(p, o.key))

\* s3.list_objects_v2(Bucket, Prefix[, ContinuationToken]): the next page of
\* the keys under the prefix.  'Contents' is absent when the page holds no
\* key; the token is the position the next page starts after.
list_objects_v2(objects, token, size) ==
    LET from == token + 1
        to == Min(token + size, Len(objects))
    IN  [KeyCount |-> to - token,
         Contents |-> [i \in 1..(to - token) |-> objects[token + i].key],
         HasContents |-> to >= from,
         IsTruncated |-> to < Len(objects),
         NextContinuationToken |-> to]

NoResponse ==
    [KeyCount |-> 0, Contents |-> <<>>, HasContents |-> FALSE, IsTruncated |-> FALSE,
     NextContinuationToken |-> 0]

\* 's3a://{}/{}'.format(bucket, key)
Locator(bucket, key) == <<"s3a://", bucket, "/", key>>

KeepKey_All(key) == TRUE

\* the filter of line 42, negated: the key is yielded
KeepKey(key) == Suffix(key) = DotJson

\* the locators the for loop yields for one page
PageLocators(contents) ==
    LET kept == SelectSeq(contents, KeepKey)
    IN  [i \in 1..Len(kept) |-> Locator(bucket_name, kept[i])]

\* response = s3.list_objects_v2(**kwargs)
ListRequest ==
    /\ lpc = "request"
    /\ response' = list_objects_v2(Under(store, prefix), kwargs, pageSize)
    /\ requests' = requests + 1
    /\ lpc' = "iterate"
    /\ UNCHANGED <<store, pageSize, tz, pc, step, flow, prefix, kwargs, yielded,
                   song_data, log_data, songs, tables, error, envFault>>

\* for object in response['Contents']: ... yield
ListIterate ==
    /\ lpc = "iterate"
    /\ response.HasContents
    /\ yielded' = yielded \o PageLocators(response.Contents)
    /\ lpc' = "check"
    /\ UNCHANGED <<store, pageSize, tz, pc, step, flow, prefix, kwargs, response,
                   requests, song_data, log_data, songs, tables, error, envFault>>

\* response['Contents'] of a response without that key: KeyError, which
\* nothing catches
ListKeyError ==
    /\ lpc = "iterate"
    /\ ~response.HasContents
    /\ lpc' = "raised"
    /\ pc' = "failed"
    /\ error' = "KeyError"
    /\ UNCHANGED <<store, pageSize, tz, step, flow, prefix, kwargs, response, yielded,
                   requests, song_data, log_data, songs, tables, envFault>>

\* if response['IsTruncated']: set the token, loop; else: return
ListCheck ==
    /\ lpc = "check"
    /\ IF response.IsTruncated
       THEN /\ kwargs' = response.NextContinuationToken
            /\ lpc' = "request"
       ELSE /\ kwargs' = kwargs
            /\ lpc' = "returned"
    /\ UNCHANGED <<store, pageSize, tz, pc, step, flow, prefix, response, yielded,
                   requests, song_data, log_data, songs, tables, error, envFault>>


-----------------------------------------------------------------------------
(* Data frames and SQL *)

\* SELECT DISTINCT: each row once
RECURSIVE Distinct(_)
Distinct(rows) ==
    IF rows = <<>> THEN <<>>
    ELSE LET init == Distinct(SubSeq(rows, 1, Len(rows) - 1))
             r == rows[Len(rows)]
         IN  IF r \in Range(init) THEN init ELSE Append(init, r)

\* the lines of the object a locator names
BodyOf(objects, locator) ==
    LET hit == SelectSeq(objects, LAMBDA o : o.key = locator[4])
    IN  IF hit = <<>> THEN <<>> ELSE hit[1].body

\* spark.read.json(files): one row per line of every file
read_json(objects, files) == Flatten([i \in 1..Len(files) |-> BodyOf(objects, files[i])])

\* SELECT DISTINCT song_id, title, artist_id, year, duration FROM song_data
songs_table(rows) ==
    Distinct([i \in 1..Len(rows) |->
        [song_id |-> rows[i].song_id, title |-> rows[i].title,
         artist_id |-> rows[i].artist_id, year |-> rows[i].year,
         duration |-> rows[i].duration]])

\* SELECT DISTINCT artist_id, artist_name AS name, ... FROM song_data
artists_table(rows) ==
    Distinct([i \in 1..Len(rows) |->
        [artist_id |-> rows[i].artist_id, name |-> rows[i].artist_name,
         location |-> rows[i].artist_location, latitude |-> rows[i].artist_latitude,
         longitude |-> rows[i].artist_longitude]])

filter_All(rows) == rows

\* df.filter("page = 'NextSong'")
filter(rows) == SelectSeq(rows, LAMBDA r : r.page = "NextSong")

\* the users row of a log row
UserRow(r) ==
    [user_id |-> r.userId, first_name |-> r.firstName, last_name |-> r.lastName,
     gender |-> r.gender, level |-> r.level]

\* SELECT DISTINCT userId AS user_id, firstName AS first_name, ... FROM log_data
users_table(rows) == Distinct([i \in 1..Len(rows) |-> UserRow(rows[i])])

-----------------------------------------------------------------------------
(* DataFrameWriter.partitionBy(...).parquet(path), spark.read.parquet(path) *)

EmptyTable == [parts |-> <<>>, success |-> FALSE]

\* the values of the partition columns of a row
PartValue(r, cols) == [i \in 1..Len(cols) |-> r[cols[i]]]

\* a row as its partition's files hold it: without the partition columns
Strip(r, cols) == [c \in (DOMAIN r) \ Range(cols) |-> r[c]]

\* the files of a table: partition value -> the rows under it
Partitions(rows, cols) ==
    LET keys == { PartValue(rows[i], cols) : i \in 1..Len(rows) }
    IN  [k \in keys |->
            LET mine == SelectSeq(rows, LAMBDA r : PartValue(r, cols) = k)
            IN  [i \in 1..Len(mine) |-> Strip(mine[i], cols)]]

\* a completed write: every partition, and the _SUCCESS marker
Written(rows, cols) == [parts |-> Partitions(rows, cols), success |-> TRUE]

\* what a write that failed partway leaves: the partitions in `kept`
Partial(rows, cols, kept) ==
    [parts |-> [k \in kept |-> Partitions(rows, cols)[k]], success |-> FALSE]

RECURSIVE SetToSeq(_)
SetToSeq(S) ==
    IF S = {} THEN <<>>
    ELSE LET x == CHOOSE y \in S : TRUE IN <<x>> \o SetToSeq(S \ {x})

\* the rows of a table, the partition columns restored from the paths
read_parquet(table, cols) ==
    LET keys == SetToSeq(DOMAIN table.parts)
        Restore(r, k) ==
            [c \in (DOMAIN r) \cup Range(cols) |->
                IF c \in DOMAIN r THEN r[c]
                ELSE k[CHOOSE i \in 1..Len(cols) : cols[i] = c]]
    IN  Flatten([j \in 1..Len(keys) |->
            [i \in 1..Len(table.parts[keys[j]]) |->
                Restore(table.parts[keys[j]][i], keys[j])]])

\* os.path.join(output_data, <name>): the tables' places in the output tree
SongsPath == "songs"
ArtistsPath == "artists"
UsersPath == "users"
TimePath == "time"
SongplaysPath == "songplays"

TableNames == {SongsPath, ArtistsPath, UsersPath, TimePath, SongplaysPath}

SongsPartitionBy == <<"year", "artist_id">>
TimePartitionBy == <<"year", "month">>
SongplaysPartitionBy == <<"year", "month">>
Unpartitioned == <<>>

AfterFailedWrite_WipeTree(tree, path, left) == [t \in DOMAIN tree |-> EmptyTable]

\* the output tree after a write to `path` failed: nothing in the code
\* stages the write or cleans up, so `path` keeps what the write had put
\* there, and no other path is touched
AfterFailedWrite(tree, path, left) == [tree EXCEPT ![path] = left]

\* <table>.write[.partitionBy(cols)].parquet(path) completes.  (The default
\* save mode raises when the path exists; a run starts from an empty
\* output tree and writes each path once.)
WriteOk(path, rows, cols) ==
    /\ tables' = [tables EXCEPT ![path] = Written(rows, cols)]
    /\ UNCHANGED <<error, envFault>>

\* the write raises partway: any subset of its partitions is left behind
WriteFails(path, rows, cols) ==
    /\ \E kept \in SUBSET (DOMAIN Partitions(rows, cols)) :
          tables' = AfterFailedWrite(tables, path, Partial(rows, cols, kept))
    /\ pc' = "failed"
    /\ error' = "WriteError"
    /\ envFault' = TRUE


-----------------------------------------------------------------------------
(* main, process_song_data, process_log_data *)

MainOrder_LogFirst == <<"log", "song">>

\* main: process_song_data(...), then process_log_data(...)
MainOrder == <<"song", "log">>

\* the prefix each flow lists
PrefixOf(f) == IF f = "song" THEN SongPrefix ELSE LogPrefix

Init ==
    /\ store \in { l \o s : l \in SubSeqsUpTo(LogObjects, MaxObjects),
                            s \in SubSeqsUpTo(SongObjects, MaxObjects) }
    /\ pageSize \in 1..MaxPageSize
    /\ tz \in TimeZones
    /\ pc = "main"
    /\ step = 1
    /\ flow = "none"
    /\ prefix = <<>>
    /\ kwargs = 0
    /\ response = NoResponse
    /\ lpc = "idle"
    /\ yielded = <<>>
    /\ requests = 0
    /\ song_data = <<>>
    /\ log_data = <<>>
    /\ songs = <<>>
    /\ tables = [t \in TableNames |-> EmptyTable]
    /\ error = ""
    /\ envFault = FALSE

\* main calls the next flow, which starts with list(json_files(bucket, prefix))
CallFlow ==
    /\ pc = "main"
    /\ step \in 1..Len(MainOrder)
    /\ flow' = MainOrder[step]
    /\ prefix' = PrefixOf(MainOrder[step])
    /\ kwargs' = 0
    /\ response' = NoResponse
    /\ yielded' = <<>>
    /\ requests' = 0
    /\ lpc' = "request"
    /\ pc' = "list"
    /\ UNCHANGED <<store, pageSize, tz, step, song_data, log_data, songs, tables,
                   error, envFault>>

\* process_song_data: files = list(...); df = spark.read.json(files);
\* registerTempTable("song_data").  With no row read there is no column
\* song_id, and the SELECT raises AnalysisException.
SongRead ==
    /\ pc = "list" /\ flow = "song" /\ lpc = "returned"
    /\ lpc' = "idle"
    /\ LET df == read_json(store, yielded)
       IN  IF df = <<>>
           THEN /\ pc' = "failed"
                /\ error' = "AnalysisException"
                /\ song_data' = song_data
           ELSE /\ pc' = "songs_write"
                /\ error' = error
                /\ song_data' = df
    /\ UNCHANGED <<store, pageSize, tz, step, flow, prefix, kwargs, response, yielded,
                   requests, log_data, songs, tables, envFault>>

\* songs_table.write.partitionBy("year", "artist_id").parquet(.../songs)
WriteSongs ==
    /\ pc = "songs_write"
    /\ WriteOk(SongsPath, songs_table(song_data), SongsPartitionBy)
    /\ pc' = "artists_write"
    /\ UNCHANGED <<store, pageSize, tz, step, flow, song_data, log_data, songs>>
    /\ UNCHANGED listerVars

WriteSongsFail ==
    /\ pc = "songs_write"
    /\ WriteFails(SongsPath, songs_table(song_data), SongsPartitionBy)
    /\ UNCHANGED <<store, pageSize, tz, step, flow, song_data, log_data, songs>>
    /\ UNCHANGED listerVars

\* artists_table.write.parquet(.../artists); process_song_data returns
WriteArtists ==
    /\ pc = "artists_write"
    /\ WriteOk(ArtistsPath, artists_table(song_data), Unpartitioned)
    /\ pc' = "main"
    /\ step' = step + 1
    /\ flow' = "none"
    /\ UNCHANGED <<store, pageSize, tz, song_data, log_data, songs>>
    /\ UNCHANGED listerVars

WriteArtistsFail ==
    /\ pc = "artists_write"
    /\ WriteFails(ArtistsPath, artists_table(song_data), Unpartitioned)
    /\ UNCHANGED <<store, pageSize, tz, step, flow, song_data, log_data, songs>>
    /\ UNCHANGED listerVars

\* process_log_data: files = list(...); df = spark.read.json(files);
\* df = df.filter("page = 'NextSong'"); registerTempTable("log_data").
\* With no row read there is no column page, and the filter raises.
LogRead ==
    /\ pc = "list" /\ flow = "log" /\ lpc = "returned"
    /\ lpc' = "idle"
    /\ LET df == read_json(store, yielded)
       IN  IF df = <<>>
           THEN /\ pc' = "failed"
                /\ error' = "AnalysisException"
                /\ log_data' = log_data
           ELSE /\ pc' = "users_write"
                /\ error' = error
                /\ log_data' = filter(df)
    /\ UNCHANGED <<store, pageSize, tz, step, flow, prefix, kwargs, response, yielded,
                   requests, song_data, songs, tables, envFault>>

\* users_table.write.parquet(.../users)
WriteUsers ==
    /\ pc = "users_write"
    /\ WriteOk(UsersPath, users_table(log_data), Unpartitioned)
    /\ pc' = "datetime"
    /\ UNCHANGED <<store, pageSize, tz, step, flow, song_data, log_data, songs>>
    /\ UNCHANGED listerVars

WriteUsersFail ==
    /\ pc = "users_write"
    /\ WriteFails(UsersPath, users_table(log_data), Unpartitioned)
    /\ UNCHANGED <<store, pageSize, tz, step, flow, song_data, log_data, songs>>
    /\ UNCHANGED listerVars

\* (col("ts") / 1000).cast(TimestampType()): seconds and microseconds
Datetime(ts) == [sec |-> ts[1], micros |-> ts[2] * 1000]

\* a row with one more column
WithColumn(r, c, v) == [x \in (DOMAIN r) \cup {c} |-> IF x = c THEN v ELSE r[x]]

\* df = df.withColumn("datetime", ...)
AddDatetime ==
    /\ pc = "datetime"
    /\ log_data' = [i \in 1..Len(log_data) |->
                       WithColumn(log_data[i], "datetime", Datetime(log_data[i].ts))]
    /\ pc' = "timestamp"
    /\ UNCHANGED <<store, pageSize, tz, step, flow, song_data, songs, tables, error,
                   envFault>>
    /\ UNCHANGED listerVars

\* df = df.withColumn("timestamp", to_timestamp("datetime")): the module
\* neither imports nor defines to_timestamp, so the statement raises
\* NameError and process_log_data ends here
AddTimestamp ==
    /\ pc = "timestamp"
    /\ pc' = "failed"
    /\ error' = "NameError"
    /\ UNCHANGED <<store, pageSize, tz, step, flow, song_data, log_data, songs, tables,
                   envFault>>
    /\ UNCHANGED listerVars

Next ==
    \/ CallFlow
    \/ ListRequest
    \/ ListIterate
    \/ ListKeyError
    \/ ListCheck
    \/ SongRead
    \/ WriteSongs
    \/ WriteSongsFail
    \/ WriteArtists
    \/ WriteArtistsFail
    \/ LogRead
    \/ WriteUsers
    \/ WriteUsersFail
    \/ AddDatetime
    \/ AddTimestamp

Spec == Init /\ [][Next]_vars


-----------------------------------------------------------------------------
(* The statements of process_log_data after line 143, as functions of the   *)
(* tables they read.  No run of main reaches them (AddTimestamp); SqlSpec   *)
(* starts where line 145 would leave the flow were to_timestamp the         *)
(* identity on timestamps, and applies them to bounded inputs.              *)

\* days since 1970-01-01 of the civil date y-m-d (proleptic Gregorian)
DaysFromCivil(y, m, d) ==
    LET yy == IF m <= 2 THEN y - 1 ELSE y
        era == yy \div 400
        yoe == yy - era * 400
        mp == IF m > 2 THEN m - 3 ELSE m + 9
        doy == (153 * mp + 2) \div 5 + d - 1
        doe == yoe * 365 + yoe \div 4 - yoe \div 100 + doy
    IN  era * 146097 + doe - 719468

\* the civil date of a day count since 1970-01-01
CivilFromDays(days) ==
    LET z == days + 719468
        era == z \div 146097
        doe == z - era * 146097
        yoe == (doe - doe \div 1460 + doe \div 36524 - doe \div 146096) \div 365
        doy == doe - (365 * yoe + yoe \div 4 - yoe \div 100)
        mp == (5 * doy + 2) \div 153
        d == doy - (153 * mp + 2) \div 5 + 1
        m == IF mp < 10 THEN mp + 3 ELSE mp - 9
    IN  [year |-> yoe + era * 400 + (IF m <= 2 THEN 1 ELSE 0), month |-> m, day |-> d]

\* seconds since the epoch on the session time zone's wall clock
LocalSeconds(dt, zone) == dt.sec + zone
LocalDays(dt, zone) == LocalSeconds(dt, zone) \div 86400

\* the SQL functions hour, day, month, year, dayofweek (1 = Sunday) and
\* weekofyear (the ISO 8601 week: that of the week's Thursday)
sql_hour(dt, zone) == (LocalSeconds(dt, zone) % 86400) \div 3600
sql_day(dt, zone) == CivilFromDays(LocalDays(dt, zone)).day
sql_month(dt, zone) == CivilFromDays(LocalDays(dt, zone)).month
sql_year(dt, zone) == CivilFromDays(LocalDays(dt, zone)).year
sql_dayofweek(dt, zone) == ((LocalDays(dt, zone) + 4) % 7) + 1
sql_weekofyear(dt, zone) ==
    LET days == LocalDays(dt, zone)
        isoday == ((days + 3) % 7) + 1
        thursday == days - isoday + 4
        jan1 == DaysFromCivil(CivilFromDays(thursday).year, 1, 1)
    IN  (thursday - jan1) \div 7 + 1

\* SELECT datetime AS start_time, hour(datetime) AS hour, ... FROM log_data
time_table(rows, zone) ==
    [i \in 1..Len(rows) |->
        LET dt == rows[i].datetime
        IN  [start_time |-> dt, hour |-> sql_hour(dt, zone), day |-> sql_day(dt, zone),
             week |-> sql_weekofyear(dt, zone), month |-> sql_month(dt, zone),
             year |-> sql_year(dt, zone), weekday |-> sql_dayofweek(dt, zone)]]

\* a songplays row but for its songplay_id
PlayRow(l, s, zone) ==
    [start_time |-> l.datetime, user_id |-> l.userId, level |-> l.level,
     song_id |-> s.song_id, artist_id |-> s.artist_id, session_id |-> l.sessionId,
     location |-> l.location, user_agent |-> l.userAgent,
     year |-> sql_year(l.datetime, zone), month |-> sql_month(l.datetime, zone)]

\* log_data.song = songs.title: never true of a NULL
TitleMatches(l, s) == l.song # Null /\ s.title # Null /\ l.song = s.title

\* SELECT monotonically_increasing_id() AS songplay_id, ...
\* FROM log_data JOIN songs WHERE log_data.song = songs.title
\* (one row per pair of rows that match; the ids of one partition are 0, 1, ...)
songplays_table(log_rows, song_rows, zone) ==
    LET joined == Flatten([i \in 1..Len(log_rows) |->
                    LET hits == SelectSeq(song_rows, LAMBDA s : TitleMatches(log_rows[i], s))
                    IN  [j \in 1..Len(hits) |-> PlayRow(log_rows[i], hits[j], zone)]])
    IN  [n \in 1..Len(joined) |-> WithColumn(joined[n], "songplay_id", n - 1)]

\* time_table.write.partitionBy("year", "month").parquet(.../time)
WriteTime ==
    /\ pc = "time_write"
    /\ WriteOk(TimePath, time_table(log_data, tz), TimePartitionBy)
    /\ pc' = "songs_read"
    /\ UNCHANGED <<store, pageSize, tz, step, flow, song_data, log_data, songs>>
    /\ UNCHANGED listerVars

\* song_df = spark.read.parquet(.../songs); registerTempTable("songs")
ReadSongs ==
    /\ pc = "songs_read"
    /\ songs' = read_parquet(tables[SongsPath], SongsPartitionBy)
    /\ pc' = "songplays_write"
    /\ UNCHANGED <<store, pageSize, tz, step, flow, song_data, log_data, tables, error,
                   envFault>>
    /\ UNCHANGED listerVars

\* songplays_table.write.partitionBy("year", "month").parquet(.../songplays);
\* process_log_data returns
WriteSongplays ==
    /\ pc = "songplays_write"
    /\ WriteOk(SongplaysPath, songplays_table(log_data, songs, tz), SongplaysPartitionBy)
    /\ pc' = "main"
    /\ step' = step + 1
    /\ flow' = "none"
    /\ UNCHANGED <<store, pageSize, tz, song_data, log_data, songs>>
    /\ UNCHANGED listerVars

\* main returns after its last call
MainReturn ==
    /\ pc = "main"
    /\ step > Len(MainOrder)
    /\ pc' = "done"
    /\ UNCHANGED <<store, pageSize, tz, step, flow, song_data, log_data, songs, tables,
                   error, envFault>>
    /\ UNCHANGED listerVars

\* the state line 145 would leave, for bounded song_data and log files
SqlInit ==
    /\ store = <<>>
    /\ pageSize = 1
    /\ tz \in TimeZones
    /\ pc = "time_write"
    /\ step = 2
    /\ flow = "log"
    /\ prefix = LogPrefix
    /\ kwargs = 0
    /\ response = NoResponse
    /\ lpc = "idle"
    /\ yielded = <<>>
    /\ requests = 0
    /\ song_data \in SubSeqsUpTo(SongRecords, MaxRows) \ {<<>>}
    /\ \E df \in SubSeqsUpTo(LogRecords, MaxRows) \ {<<>>} :
        /\ log_data = [i \in 1..Len(filter(df)) |->
              WithColumn(WithColumn(filter(df)[i], "datetime", Datetime(filter(df)[i].ts)),
                         "timestamp", Datetime(filter(df)[i].ts))]
        /\ tables = [t \in TableNames |->
              IF t = SongsPath THEN Written(songs_table(song_data), SongsPartitionBy)
              ELSE IF t = ArtistsPath THEN Written(artists_table(song_data), Unpartitioned)
              ELSE IF t = UsersPath THEN Written(users_table(filter(df)), Unpartitioned)
              ELSE EmptyTable]
    /\ songs = <<>>
    /\ error = ""
    /\ envFault = FALSE

SqlNext ==
    \/ WriteTime
    \/ ReadSongs
    \/ WriteSongplays
    \/ MainReturn

SqlSpec == SqlInit /\ [][SqlNext]_vars


-----------------------------------------------------------------------------
(* Properties *)

\* the rows a table of the output tree holds
RowsOf(path, cols) == read_parquet(tables[path], cols)

\* every line of every object under log_data
AllLogEvents == Flatten([i \in 1..Len(Under(store, LogPrefix)) |->
                            Under(store, LogPrefix)[i].body])

ListingEnded == lpc \in {"returned", "raised"}

\* C1: when a listing has ended, json_files has yielded exactly one locator
\* for every key under the prefix whose suffix (the suffix of the key's
\* final path component, as pathlib gives it) is '.json', none for any
\* other key and nothing else, whatever the number and size of the pages.
C1_ListingExact ==
    ListingEnded =>
        LET objs == Under(store, prefix)
        IN  /\ \A i \in 1..Len(objs) :
                  Count(yielded, <<"s3a://", "udacity-dend", "/", objs[i].key>>)
                      = IF Suffix(objs[i].key) = <<".", "j", "s", "o", "n">> THEN 1 ELSE 0
            /\ \A j \in 1..Len(yielded) :
                  \E i \in 1..Len(objs) : yielded[j][4] = objs[i].key

\* a listing of several pages that yielded two keys and skipped another
C1_Witness ==
    /\ lpc = "returned"
    /\ requests >= 2
    /\ Len(yielded) >= 2
    /\ Len(yielded) < Len(Under(store, prefix))

\* C2: while process_log_data runs, or after it failed, the songs table is
\* completely written: process_song_data finished writing it before the
\* event flow started, so no read of it for the join can precede the write.
C2_SongsWrittenBeforeLogFlow ==
    flow = "log" =>
        /\ tables[SongsPath] = Written(songs_table(song_data), SongsPartitionBy)
        /\ tables[ArtistsPath].success

\* the event flow is running and the catalog flow has written its songs
C2_Witness ==
    /\ flow = "log"
    /\ pc = "users_write"
    /\ DOMAIN tables[SongsPath].parts # {}

\* C4: every row of the tables the event flow writes comes from a NextSong
\* event: a users row is the user tuple of one, a time or songplays row
\* starts at the timestamp of one.
C4_OnlyNextSongRows ==
    LET plays == { e \in Range(AllLogEvents) : e.page = "NextSong" }
    IN  /\ \A r \in Range(RowsOf(UsersPath, Unpartitioned)) :
              \E e \in plays : r = UserRow(e)
        /\ \A r \in Range(RowsOf(TimePath, TimePartitionBy)) :
              \E e \in plays : r.start_time = Datetime(e.ts)
        /\ \A r \in Range(RowsOf(SongplaysPath, SongplaysPartitionBy)) :
              \E e \in plays : r.start_time = Datetime(e.ts) /\ r.user_id = e.userId

\* users is written from log files that hold a NextSong and a Login event
C4_Witness ==
    /\ tables[UsersPath].success
    /\ RowsOf(UsersPath, Unpartitioned) # <<>>
    /\ \E e \in Range(read_json(store, yielded)) : e.page = "Login"
    /\ flow = "log"

\* the inputs of the end-to-end scenario: two catalog objects, three event
\* objects (two NextSong, one Login), one event title matching one catalog
\* entry
Scenario ==
    LET sobjs == Under(store, SongPrefix)
        lobjs == Under(store, LogPrefix)
        recs == Flatten([i \in 1..Len(sobjs) |-> sobjs[i].body])
        plays == SelectSeq(AllLogEvents, LAMBDA e : e.page = "NextSong")
    IN  /\ Len(sobjs) = 2 /\ Len(recs) = 2
        /\ \A i \in 1..2 : Suffix(sobjs[i].key) = DotJson
        /\ recs[1].song_id # recs[2].song_id
        /\ Len(lobjs) = 3 /\ Len(AllLogEvents) = 3
        /\ \A i \in 1..3 : Suffix(lobjs[i].key) = DotJson
        /\ Len(plays) = 2
        /\ Count(AllLogEvents, LogRecords[3]) = 1
        /\ Cardinality({ <<i, j>> \in (1..2) \X (1..2) : plays[i].song = recs[j].title }) = 1

\* C5: a run on the scenario's inputs that no environment fault ends
\* completes, with 2 rows in songs, one users row per distinct user tuple
\* of the 2 qualifying events, and 1 row in songplays.
C5_EndToEnd ==
    (Scenario /\ pc \in {"done", "failed"} /\ ~envFault) =>
        /\ pc = "done"
        /\ Len(RowsOf(SongsPath, SongsPartitionBy)) = 2
        /\ Len(RowsOf(UsersPath, Unpartitioned))
               = Cardinality({ UserRow(e) : e \in { x \in Range(AllLogEvents) :
                                                       x.page = "NextSong" } })
        /\ Len(RowsOf(SongplaysPath, SongplaysPartitionBy)) = 1

\* the complete files of a table, from the data frame it is written from
CompleteParts(path) ==
    IF path = SongsPath THEN Partitions(songs_table(song_data), SongsPartitionBy)
    ELSE IF path = ArtistsPath THEN Partitions(artists_table(song_data), Unpartitioned)
    ELSE IF path = UsersPath THEN Partitions(users_table(log_data), Unpartitioned)
    ELSE IF path = TimePath THEN Partitions(time_table(log_data, tz), TimePartitionBy)
    ELSE Partitions(songplays_table(log_data, songs, tz), SongplaysPartitionBy)

\* C6: each table location holds the complete table or nothing, also after
\* a write of it failed.
C6_AllOrNothing ==
    \A t \in {SongsPath, ArtistsPath, UsersPath} :
        \/ DOMAIN tables[t].parts = {}
        \/ tables[t].parts = CompleteParts(t)

\* C8: the songs table holds at most one row per song_id.
C8_OneRowPerSongId ==
    LET rows == RowsOf(SongsPath, SongsPartitionBy)
    IN  tables[SongsPath].success =>
            \A i, j \in 1..Len(rows) : rows[i].song_id = rows[j].song_id => i = j

\* C9: no step of process_log_data changes the songs or the artists table,
\* and a failed run takes no further step.
C9_CatalogTablesUntouched ==
    [][ /\ flow = "log" => /\ tables'[SongsPath] = tables[SongsPath]
                           /\ tables'[ArtistsPath] = tables[ArtistsPath]
        /\ pc = "failed" => UNCHANGED vars ]_vars

\* the event flow has failed in a write, after the catalog flow wrote its tables
C9_Witness ==
    /\ flow = "log"
    /\ pc = "failed"
    /\ error = "WriteError"
    /\ tables[SongsPath].success
    /\ tables[ArtistsPath].success
    /\ DOMAIN tables[SongsPath].parts # {}

\* the pages a listing of n keys has: one per pageSize keys, and one empty
\* page for no key
PagesOf(n) == IF n = 0 THEN 1 ELSE (n + pageSize - 1) \div pageSize

\* C10: a listing never ends with an exception, and one that returned has
\* made one request per page: it followed every continuation token and
\* stopped at the first response that is not truncated.
C10_ListingEndsNormally ==
    /\ lpc # "raised"
    /\ lpc = "returned" =>
          /\ ~response.IsTruncated
          /\ requests = PagesOf(Len(Under(store, prefix)))

\* the order of the song ids
SongIdRank(id) == CHOOSE i \in 1..3 : <<"S1", "S2", "S3">>[i] = id

\* the songplays rows of a log row
PlaysOf(e) ==
    SelectSeq(RowsOf(SongplaysPath, SongplaysPartitionBy),
              LAMBDA r : /\ r.start_time = e.datetime /\ r.user_id = e.userId
                         /\ r.level = e.level /\ r.session_id = e.sessionId)

=============================================================================
